---- MODULE Spec2Model ----
(***************************************************************************)
(* Visual Favorites (src/index.tsx): the board of groups and favorites,    *)
(* the cross-group drag protocol with its animated transit, and the view   *)
(* transform (wheel zoom, pan, group drag).                                *)
(*                                                                         *)
(* Numbers.  The source computes with JavaScript numbers.  Here screen and *)
(* world coordinates are whole pixels, the zoom factor is kept in          *)
(* thousandths (1000 is zoom 1), and orbit positions are kept in           *)
(* thousandths of a pixel.  A division rounds down.                        *)
(*                                                                         *)
(* Identifiers.  'fav-<n>' is the number n and 'group-<n>' is the number   *)
(* n; an id made from Date.now() is the clock value.                       *)
(***************************************************************************)
EXTENDS Integers, Sequences, FiniteSets, TLC

VARIABLES
    groups,           \* useState<Group[]>: the board
    isModalOpen,      \* useState(false)
    activeGroupId,    \* useState<string | null>
    editingFavorite,  \* useState<Favorite | null>
    view,             \* useState<ViewState>: zoom and pan
    travelingItem,    \* useState<TravelingItem | null>
    interactionState, \* useRef: panning and group dragging
    dragItem,         \* useRef: {fromGroupId, item} | null
    dragOverGroup,    \* useRef: group id | null
    tf,               \* the mounted TravelingFavorite component, if any
    drag,             \* the browser's drag-and-drop session
    mouse,            \* the pointer's screen position
    now,              \* Date.now()
    searchQuery,      \* useState(''): the text of the search box
    stored,           \* localStorage: the item 'visualFavorites'
    app,              \* whether the App component is mounted or failed to
    reading,          \* the files a FileReader of handleImport is reading
    alerted,          \* the message of the last alert(), "" before the first
    commits,          \* history: board commits applied for the current transit
    drags,            \* history: drag gestures started
    ops,              \* history: groups and favorites added, favorites edited
    moves,            \* history: mouse moves
    wheels            \* history: wheel events

modalVars == <<isModalOpen, activeGroupId, editingFavorite>>
dndVars == <<dragItem, dragOverGroup, drag>>
transitVars == <<travelingItem, tf, commits>>
pointerVars == <<interactionState, mouse>>
counters == <<drags, ops, moves, wheels>>
sessionVars == <<searchQuery, stored, app, reading, alerted>>

vars == <<groups, modalVars, view, transitVars, dndVars, pointerVars, now, counters,
          sessionVars>>

-----------------------------------------------------------------------------
(* Constants of the source *)

ORBIT_RADIUS == 180
MIN_ZOOM == 200
MAX_ZOOM == 3000
\* const zoomFactor = 1.1
ZoomFactor == 1100
\* rootRef.current.getBoundingClientRect(): the root container fills the window
RectLeft == 0
RectTop == 0

(* Bounds of the model *)

\* Drag gestures started in one run.
MaxDrags == 2
\* Groups added, favorites added and favorites edited in one run.
MaxOps == 1
\* Mouse moves in one run.
MaxMoves == 1
\* Wheel events in one run.
MaxWheels == 18
\* Wheel events in one run of the mouse gestures.
MaxZooms == 2

Null == [null |-> TRUE]
NoGroup == 0
Foreign == 0

Props == {"left", "top", "transform"}

\* Where the pointer can be.
Points == {[x |-> 100, y |-> 100], [x |-> 140, y |-> 130]}

\* What the form of the modal can hold: the content of a favorite (name,
\* url, type, image or text, open behaviour) as one value.
Contents == {0, 1}

-----------------------------------------------------------------------------
(* Data *)

Fav(id, data) == [id |-> id, data |-> data]

\* getInitialData with nothing stored: the two default groups.
DefaultBoard ==
    << [id |-> 1, name |-> "Work Tools", x |-> 400, y |-> 300,
        favorites |-> <<Fav(1, 0), Fav(2, 0), Fav(5, 0), Fav(6, 0)>>],
       [id |-> 2, name |-> "Team Contacts", x |-> 800, y |-> 500,
        favorites |-> <<Fav(3, 0), Fav(4, 0), Fav(7, 0)>>] >>

\* The ids in a list of favorites, and on a board.
FavIds(favs) == {favs[i].id : i \in DOMAIN favs}
BoardIds(gs) == UNION {FavIds(gs[i].favorites) : i \in DOMAIN gs}

\* groups.find(g => g.id === gid): the first group with that id.
FindGroup(gs, gid) ==
    LET hits == {i \in DOMAIN gs : gs[i].id = gid}
    IN  gs[CHOOSE i \in hits : \A j \in hits : i <= j]

\* How often id occurs in a list, and on the whole board.
CountIn(favs, id) == Cardinality({i \in DOMAIN favs : favs[i].id = id})

RECURSIVE SumCounts(_, _, _)
SumCounts(gs, id, i) ==
    IF i = 0 THEN 0 ELSE CountIn(gs[i].favorites, id) + SumCounts(gs, id, i - 1)
CountOnBoard(gs, id) == SumCounts(gs, id, Len(gs))

RECURSIVE SumLens(_, _)
SumLens(gs, i) == IF i = 0 THEN 0 ELSE Len(gs[i].favorites) + SumLens(gs, i - 1)
TotalFavorites(gs) == SumLens(gs, Len(gs))

-----------------------------------------------------------------------------
(* Geometry: 1000*cos(2*pi*i/n) and 1000*sin(2*pi*i/n), row n, column i+1 *)

CosTable ==
  << <<1000>>,
     <<1000, -1000>>,
     <<1000, -500, -500>>,
     <<1000, 0, -1000, 0>>,
     <<1000, 309, -809, -809, 309>>,
     <<1000, 500, -500, -1000, -500, 500>>,
     <<1000, 623, -223, -901, -901, -223, 623>>,
     <<1000, 707, 0, -707, -1000, -707, 0, 707>>,
     <<1000, 766, 174, -500, -940, -940, -500, 174, 766>>,
     <<1000, 809, 309, -309, -809, -1000, -809, -309, 309, 809>> >>

SinTable ==
  << <<0>>,
     <<0, 0>>,
     <<0, 866, -866>>,
     <<0, 1000, 0, -1000>>,
     <<0, 951, 588, -588, -951>>,
     <<0, 866, 866, 0, -866, -866>>,
     <<0, 782, 975, 434, -434, -975, -782>>,
     <<0, 707, 1000, 707, 0, -707, -1000, -707>>,
     <<0, 643, 985, 866, 342, -342, -866, -985, -643>>,
     <<0, 588, 951, 951, 588, 0, -588, -951, -951, -588>> >>

\* Numbers that are no coordinates, as integers no coordinate reaches: NaN,
\* and what JSON.parse makes of a null where a number was written.
NaN == -999999
NullNumber == -999998

\* angle = (i / count) * 2 * PI; anchor + ORBIT_RADIUS * (cos, sin), in
\* thousandths of a pixel.  With count = 0 the quotient is 0/0 or infinite
\* and its cosine and sine are NaN.
OrbitPos(ax, ay, i, count) ==
    IF count = 0 THEN [x |-> NaN, y |-> NaN]
    ELSE [x |-> ax * 1000 + ORBIT_RADIUS * CosTable[count][i + 1],
          y |-> ay * 1000 + ORBIT_RADIUS * SinTable[count][i + 1]]

\* planetPositions: one entry per favorite id on the board; a later
\* occurrence of an id overwrites an earlier one.
PlanetPositions(gs) ==
    [id \in BoardIds(gs) |->
        LET all == UNION {{<<gi, fi>> : fi \in DOMAIN gs[gi].favorites} :
                             gi \in DOMAIN gs}
            occ == {p \in all : gs[p[1]].favorites[p[2]].id = id}
            last == CHOOSE p \in occ : \A q \in occ :
                        q[1] < p[1] \/ (q[1] = p[1] /\ q[2] <= p[2])
        IN  OrbitPos(gs[last[1]].x, gs[last[1]].y, last[2] - 1,
                     Len(gs[last[1]].favorites))]

-----------------------------------------------------------------------------
(* The TravelingFavorite component *)

Unmounted == [mounted |-> FALSE]

\* What a render leaves of the component tfOld when travelingItem is ti:
\* removed when ti is null; mounted at startPos, slightly bigger, with the
\* 20 ms timer of its effect pending; or, already mounted and given a new
\* endPos, kept with its style and with the effect's timer set again.
Rendered(tfOld, ti) ==
    IF ti = Null THEN Unmounted
    ELSE IF ~tfOld.mounted
    THEN [mounted |-> TRUE, props |-> ti,
          style |-> [left |-> ti.startPos.x, top |-> ti.startPos.y,
                     transform |-> "scale(1.1)"],
          timer |-> TRUE, running |-> {}]
    ELSE [tfOld EXCEPT !.props = ti, !.timer = TRUE]

\* A transitionend handler has set travelingItem to null and React has not
\* rendered yet: the component is still in the document.
PendingRender == tf.mounted /\ travelingItem = Null

-----------------------------------------------------------------------------
(* Board operations *)

\* The updater of handleTravelEnd.
MoveFavorite(gs, item, fromGroupId, toGroupId) ==
    [i \in DOMAIN gs |->
        IF gs[i].id = fromGroupId
        THEN LET Keep(f) == f.id # item.id
             IN  [gs[i] EXCEPT !.favorites = SelectSeq(@, Keep)]
        ELSE IF gs[i].id = toGroupId
        THEN [gs[i] EXCEPT !.favorites = Append(@, item)]
        ELSE gs[i]]

-----------------------------------------------------------------------------
(* Arithmetic on thousandths *)

\* a * z and a / z for a factor z in thousandths.
Times(a, z) == (a * z) \div 1000
Over(a, z) == (a * 1000) \div z

Min(a, b) == IF a < b THEN a ELSE b
Max(a, b) == IF a > b THEN a ELSE b

\* The clamp without its upper bound.
ClampZoomNoUpper(newZoom) == Max(MIN_ZOOM, newZoom)

\* Math.max(MIN_ZOOM, Math.min(MAX_ZOOM, newZoom))
ClampZoom(newZoom) == Max(MIN_ZOOM, Min(MAX_ZOOM, newZoom))

-----------------------------------------------------------------------------
-----------------------------------------------------------------------------
(* JSON texts and values *)

\* A text that is no JSON, the empty text, and the text of a JSON value.
Garbage == [text |-> "garbage"]
EmptyText == [text |-> ""]
TextOf(v) == [text |-> "json", json |-> v]

JNull == [t |-> "null"]
JNumber == [t |-> "number"]
JObject(o) == [t |-> "object", o |-> o]
JArray(items) == [t |-> "array", items |-> items]

\* JSON.stringify(groups)
\* JSON.stringify of a group: JSON has no NaN, it is written as null.
StringifyGroup(g) ==
    [field \in DOMAIN g |->
        IF field \in {"x", "y"} /\ g[field] = NaN THEN NullNumber ELSE g[field]]
Stringify(gs) == TextOf(JArray([i \in DOMAIN gs |-> JObject(StringifyGroup(gs[i]))]))

\* JSON.parse(text): a value, or a SyntaxError thrown.
JsonParse(text) ==
    IF text.text = "json" THEN [throws |-> FALSE, value |-> text.json]
    ELSE [throws |-> TRUE]

\* A parsed array of objects, used as Group[].
AsGroups(v) == [i \in DOMAIN v.items |-> v.items[i].o]

\* The first render can walk the value: an array (groups.forEach, groups.map)
\* of objects with favorites (group.favorites.forEach).  A group without a
\* name or a position renders and does not throw.
IsBoard(v) ==
    /\ v.t = "array"
    /\ \A i \in DOMAIN v.items :
          /\ v.items[i].t = "object"
          /\ "favorites" \in DOMAIN v.items[i].o

\* useEffect(() => localStorage.setItem('visualFavorites', ...), [groups])
SaveEffect ==
    /\ stored' = Stringify(groups')
    /\ UNCHANGED <<searchQuery, app, reading, alerted>>

-----------------------------------------------------------------------------
\* The state of a freshly mounted App around its board.
InitState ==
    /\ isModalOpen = FALSE
    /\ activeGroupId = NoGroup
    /\ editingFavorite = Null
    /\ view = [zoom |-> 1000, pan |-> [x |-> 0, y |-> 0]]
    /\ travelingItem = Null
    /\ interactionState = [isPanning |-> FALSE, isDraggingGroup |-> FALSE,
                           draggedGroupIndex |-> -1,
                           startPos |-> [x |-> 0, y |-> 0],
                           initialGroupPos |-> [x |-> 0, y |-> 0]]
    /\ dragItem = Null
    /\ dragOverGroup = NoGroup
    /\ tf = Unmounted
    /\ drag = [phase |-> "idle", src |-> Foreign, srcGroup |-> NoGroup, over |-> NoGroup]
    /\ mouse = [x |-> 140, y |-> 130]
    \* the clock at load: later than every id of the default board
    /\ now = 100
    /\ searchQuery = <<>>
    /\ reading = {}
    /\ alerted = ""
    /\ commits = 0
    /\ drags = 0
    /\ ops = 0
    /\ moves = 0
    /\ wheels = 0

\* The App mounted: the save effect has run after the first render.
InitAround ==
    /\ InitState
    /\ stored = Stringify(groups)
    /\ app = "mounted"

\* The App mounted with nothing stored.
Init ==
    /\ groups = DefaultBoard
    /\ InitAround

\* The user can start something on the canvas: no modal covers it, no drag
\* gesture or mouse gesture is under way, and React has rendered.
CanvasFree ==
    /\ ~isModalOpen
    /\ drag.phase = "idle"
    /\ ~PendingRender
    /\ ~interactionState.isPanning
    /\ ~interactionState.isDraggingGroup

-----------------------------------------------------------------------------
(* Drag and drop of favorites *)

\* cleanupDragClasses
\* The cleanup that forgets the recorded destination.
CleanupKeepsTarget ==
    /\ dragItem' = Null
    /\ UNCHANGED dragOverGroup

CleanupDragClasses ==
    /\ dragItem' = Null
    /\ dragOverGroup' = NoGroup

\* A favorite card is grabbed: onDragStart of the card of favorite fi of
\* group gi.  Every card on the board is rendered draggable.
HandleDragStart(gi, fi) ==
    /\ CanvasFree
    /\ drags < MaxDrags
    /\ dragItem' = [fromGroupId |-> groups[gi].id, item |-> groups[gi].favorites[fi]]
    /\ drag' = [phase |-> "dragging", src |-> groups[gi].favorites[fi].id,
                srcGroup |-> groups[gi].id, over |-> NoGroup]
    /\ drags' = drags + 1
    /\ UNCHANGED sessionVars
    /\ UNCHANGED <<groups, modalVars, view, transitVars, dragOverGroup, pointerVars,
                   now, ops, moves, wheels>>

\* Something that is no favorite card is dragged over the page (a file, a
\* selection): no handler runs at its start.
ForeignDragStart ==
    /\ CanvasFree
    /\ drags < MaxDrags
    /\ drag' = [phase |-> "dragging", src |-> Foreign, srcGroup |-> NoGroup,
                over |-> NoGroup]
    /\ drags' = drags + 1
    /\ UNCHANGED sessionVars
    /\ UNCHANGED <<groups, modalVars, view, transitVars, dragItem, dragOverGroup,
                   pointerVars, now, ops, moves, wheels>>

\* The pointer enters the drop target of group gid.
HandleDragEnterGroup(gid) ==
    /\ drag.phase = "dragging"
    /\ ~PendingRender
    /\ drag.over # gid
    /\ dragOverGroup' = gid
    /\ drag' = [drag EXCEPT !.over = gid]
    /\ UNCHANGED sessionVars
    /\ UNCHANGED <<groups, modalVars, view, transitVars, dragItem, pointerVars, now,
                   counters>>

\* The pointer leaves the drop target it is over: only a CSS class changes.
HandleDragLeaveGroup ==
    /\ drag.phase = "dragging"
    /\ ~PendingRender
    /\ drag.over # NoGroup
    /\ drag' = [drag EXCEPT !.over = NoGroup]
    /\ UNCHANGED sessionVars
    /\ UNCHANGED <<groups, modalVars, view, transitVars, dragItem, dragOverGroup,
                   pointerVars, now, counters>>

\* handleDrop computing endPos over the destination as it is, without the
\* temporary append.
DropTransitNoAppend ==
    LET item == dragItem.item
        toGroup == FindGroup(groups, dragOverGroup)
        newCount == Len(toGroup.favorites)
        newIndex == newCount - 1
    IN  [item |-> item,
         startPos |-> PlanetPositions(groups)[item.id],
         endPos |-> OrbitPos(toGroup.x, toGroup.y, newIndex, newCount),
         fromGroupId |-> dragItem.fromGroupId,
         toGroupId |-> dragOverGroup]

\* The travelling item handleDrop computes from the refs and the board.
DropTransit ==
    LET item == dragItem.item
        toGroup == FindGroup(groups, dragOverGroup)
        newCount == Len(toGroup.favorites) + 1
        newIndex == newCount - 1
    IN  [item |-> item,
         startPos |-> PlanetPositions(groups)[item.id],
         endPos |-> OrbitPos(toGroup.x, toGroup.y, newIndex, newCount),
         fromGroupId |-> dragItem.fromGroupId,
         toGroupId |-> dragOverGroup]

\* The release over the drop target of a group: onDrop.
HandleDrop ==
    /\ drag.phase = "dragging"
    /\ ~PendingRender
    /\ drag.over # NoGroup
    /\ IF \/ dragItem = Null
          \/ dragOverGroup = NoGroup
          \/ dragItem.fromGroupId = dragOverGroup
       THEN UNCHANGED transitVars
       ELSE IF dragItem.item.id \in BoardIds(groups)
       THEN /\ travelingItem' = DropTransit
            /\ tf' = Rendered(tf, DropTransit)
            /\ commits' = 0
       ELSE UNCHANGED transitVars
    /\ CleanupDragClasses
    /\ drag' = [drag EXCEPT !.phase = "dropped"]
    /\ UNCHANGED sessionVars
    /\ UNCHANGED <<groups, modalVars, view, pointerVars, now, counters>>

\* The card that was grabbed is still in the document: it is keyed by its
\* favorite id inside the fragment of its group.
SourceMounted ==
    /\ drag.src # Foreign
    /\ \E i \in DOMAIN groups :
          groups[i].id = drag.srcGroup /\ drag.src \in FavIds(groups[i].favorites)

\* The gesture ends (after a drop, a release elsewhere, or Escape): onDragEnd
\* runs on the grabbed card if that card is still in the document.
HandleDragEnd ==
    /\ drag.phase \in {"dragging", "dropped"}
    /\ ~PendingRender
    /\ IF SourceMounted THEN CleanupDragClasses
       ELSE UNCHANGED <<dragItem, dragOverGroup>>
    /\ drag' = [phase |-> "idle", src |-> Foreign, srcGroup |-> NoGroup,
                over |-> NoGroup]
    /\ UNCHANGED sessionVars
    /\ UNCHANGED <<groups, modalVars, view, transitVars, pointerVars, now, counters>>

-----------------------------------------------------------------------------
(* The transit *)

\* The timer of the component's effect: the style goes to endPos and every
\* property whose value changes starts a transition.
TimerFire ==
    /\ tf.mounted /\ tf.timer
    /\ ~PendingRender
    /\ LET new == [left |-> tf.props.endPos.x, top |-> tf.props.endPos.y,
                   transform |-> "scale(1)"]
       IN  tf' = [tf EXCEPT !.style = new, !.timer = FALSE,
                            !.running = @ \cup {p \in Props : new[p] # tf.style[p]}]
    /\ UNCHANGED sessionVars
    /\ UNCHANGED <<groups, modalVars, view, travelingItem, commits, dndVars,
                   pointerVars, now, counters>>

\* handleTransitionEnd: only the end of 'left' calls onAnimationEnd.
CallsOnAnimationEnd(propertyName) == propertyName = "left"

\* The transition of property p ends: handleTransitionEnd, and through it
\* handleTravelEnd as the component last received it, that is with the
\* travelingItem of the last render.
TransitionEnd(p) ==
    /\ tf.mounted
    /\ p \in tf.running
    /\ tf' = [tf EXCEPT !.running = @ \ {p}]
    /\ IF CallsOnAnimationEnd(p)
       THEN /\ groups' = MoveFavorite(groups, tf.props.item, tf.props.fromGroupId,
                                      tf.props.toGroupId)
            /\ travelingItem' = Null
            /\ commits' = commits + 1
       ELSE UNCHANGED <<groups, travelingItem, commits>>
    /\ UNCHANGED sessionVars
    /\ UNCHANGED <<modalVars, view, dndVars, pointerVars, now, counters>>

\* React renders after the transitionend handlers: the component goes.
Render ==
    /\ PendingRender
    /\ tf' = Rendered(tf, travelingItem)
    /\ UNCHANGED <<groups, modalVars, view, travelingItem, commits, dndVars,
                   pointerVars, now, counters>>
    /\ SaveEffect

-----------------------------------------------------------------------------
(* Groups and favorites *)

\* handleAddGroup: prompt() gives a name, or nothing.
HandleAddGroup(newGroupName) ==
    /\ CanvasFree
    /\ ops < MaxOps
    /\ IF newGroupName # ""
       THEN /\ groups' = Append(groups, [id |-> now, name |-> newGroupName,
                                         favorites |-> <<>>, x |-> 200, y |-> 200])
            /\ now' = now + 1
            /\ ops' = ops + 1
       ELSE UNCHANGED <<groups, now, ops>>
    /\ SaveEffect
    /\ UNCHANGED <<modalVars, view, transitVars, dndVars, pointerVars, drags, moves,
                   wheels>>

\* openAddModal
OpenAddModal(groupId) ==
    /\ CanvasFree
    /\ ops < MaxOps
    /\ activeGroupId' = groupId
    /\ editingFavorite' = Null
    /\ isModalOpen' = TRUE
    /\ UNCHANGED sessionVars
    /\ UNCHANGED <<groups, view, transitVars, dndVars, pointerVars, now, counters>>

\* openEditModal
OpenEditModal(favorite) ==
    /\ CanvasFree
    /\ ops < MaxOps
    /\ editingFavorite' = favorite
    /\ isModalOpen' = TRUE
    /\ UNCHANGED sessionVars
    /\ UNCHANGED <<groups, activeGroupId, view, transitVars, dndVars, pointerVars, now,
                   counters>>

\* closeModal
CloseModal ==
    /\ isModalOpen' = FALSE
    /\ editingFavorite' = Null
    /\ activeGroupId' = NoGroup

\* The updater of the edit branch of handleSaveFavorite.
ReplaceFavorite(gs, updatedFavorite) ==
    [i \in DOMAIN gs |->
        [gs[i] EXCEPT !.favorites =
            [k \in DOMAIN @ |-> IF @[k].id = updatedFavorite.id
                                THEN updatedFavorite ELSE @[k]]]]

\* An updater of the add branch that puts the new favorite first in its group.
AppendFavoriteFirst(gs, groupId, newFavorite) ==
    [i \in DOMAIN gs |->
        IF gs[i].id = groupId
        THEN [gs[i] EXCEPT !.favorites = <<newFavorite>> \o @]
        ELSE gs[i]]

\* The updater of the add branch of handleSaveFavorite.
AppendFavorite(gs, groupId, newFavorite) ==
    [i \in DOMAIN gs |->
        IF gs[i].id = groupId
        THEN [gs[i] EXCEPT !.favorites = Append(@, newFavorite)]
        ELSE gs[i]]

\* The form of the modal is submitted with content c: handleSubmit passes the
\* id of favoriteToEdit when there is one, and handleSaveFavorite saves.
HandleSaveFavorite(c) ==
    /\ isModalOpen
    /\ ~PendingRender
    /\ IF editingFavorite # Null
       THEN /\ groups' = ReplaceFavorite(groups, Fav(editingFavorite.id, c))
            /\ CloseModal
            /\ UNCHANGED now
       ELSE IF activeGroupId = NoGroup
       THEN UNCHANGED <<groups, modalVars, now>>
       ELSE /\ groups' = AppendFavorite(groups, activeGroupId, Fav(now, c))
            /\ now' = now + 1
            /\ CloseModal
    /\ ops' = ops + 1
    /\ SaveEffect
    /\ UNCHANGED <<view, transitVars, dndVars, pointerVars, drags, moves, wheels>>

\* The modal is dismissed: onClose.
HandleCloseModal ==
    /\ isModalOpen
    /\ ~PendingRender
    /\ CloseModal
    /\ UNCHANGED sessionVars
    /\ UNCHANGED <<groups, view, transitVars, dndVars, pointerVars, now, counters>>

-----------------------------------------------------------------------------
(* The pointer: pan and group drag *)

\* A mouse button can go down on the canvas: no modal covers it, no
\* drag-and-drop gesture is under way, and React has rendered.  Each button
\* of the mouse sends its own mousedown, also while another one is held.
CanvasReachable ==
    /\ ~isModalOpen
    /\ drag.phase = "idle"
    /\ ~PendingRender

\* handleMouseDown on the empty canvas (e.target === e.currentTarget).
HandleMouseDown ==
    /\ CanvasReachable
    /\ interactionState' = [interactionState EXCEPT !.isPanning = TRUE,
                                                    !.startPos = mouse]
    /\ UNCHANGED sessionVars
    /\ UNCHANGED <<groups, modalVars, view, transitVars, dndVars, mouse, now, counters>>

\* handleGroupMouseDown on the handle of the group at index groupIndex.
HandleGroupMouseDown(groupIndex) ==
    /\ CanvasReachable
    /\ interactionState' =
          [interactionState EXCEPT
              !.isDraggingGroup = TRUE,
              !.draggedGroupIndex = groupIndex,
              !.startPos = mouse,
              !.initialGroupPos = [field \in {"x", "y"} \cap DOMAIN groups[groupIndex + 1] |->
                                       groups[groupIndex + 1][field]]]
    /\ UNCHANGED sessionVars
    /\ UNCHANGED <<groups, modalVars, view, transitVars, dndVars, mouse, now, counters>>

\* The updater of the group branch of handleMouseMove.
RepositionGroup(gs, draggedGroupIndex, x, y) ==
    [i \in DOMAIN gs |->
        IF i - 1 = draggedGroupIndex
        THEN [field \in DOMAIN gs[i] \cup {"x", "y"} |->
                 IF field = "x" THEN x ELSE IF field = "y" THEN y ELSE gs[i][field]]
        ELSE gs[i]]

\* initialGroupPos[field] + d as JavaScript adds: undefined + d and NaN + d
\* are NaN, null + d is d.
PlusOffset(initialGroupPos, field, d) ==
    IF field \notin DOMAIN initialGroupPos THEN NaN
    ELSE IF initialGroupPos[field] = NaN THEN NaN
    ELSE IF initialGroupPos[field] = NullNumber THEN d
    ELSE initialGroupPos[field] + d

\* handleMouseMove with the pan following the pointer in canvas units, as the
\* group branch does: the deltas are divided by the zoom.
HandleMouseMoveScaledPan(e) ==
    /\ drag.phase = "idle"
    /\ ~PendingRender
    /\ moves < MaxMoves
    /\ e # mouse
    /\ LET st == interactionState IN
       IF st.isPanning
       THEN /\ view' = [view EXCEPT !.pan = [x |-> @.x + Over(e.x - st.startPos.x, view.zoom),
                                             y |-> @.y + Over(e.y - st.startPos.y, view.zoom)]]
            /\ interactionState' = [st EXCEPT !.startPos = e]
            /\ UNCHANGED groups
       ELSE IF st.isDraggingGroup
       THEN /\ groups' = RepositionGroup(groups, st.draggedGroupIndex,
                            PlusOffset(st.initialGroupPos, "x",
                                       Over(e.x - st.startPos.x, view.zoom)),
                            PlusOffset(st.initialGroupPos, "y",
                                       Over(e.y - st.startPos.y, view.zoom)))
            /\ UNCHANGED <<view, interactionState>>
       ELSE UNCHANGED <<groups, view, interactionState>>
    /\ mouse' = e
    /\ moves' = moves + 1
    /\ SaveEffect
    /\ UNCHANGED <<modalVars, transitVars, dndVars, now, drags, ops, wheels>>

\* handleMouseMove: the pointer goes to e.  No mouse event is sent during a
\* drag-and-drop gesture.
HandleMouseMove(e) ==
    /\ drag.phase = "idle"
    /\ ~PendingRender
    /\ moves < MaxMoves
    /\ e # mouse
    /\ LET st == interactionState IN
       IF st.isPanning
       THEN /\ view' = [view EXCEPT !.pan = [x |-> @.x + (e.x - st.startPos.x),
                                             y |-> @.y + (e.y - st.startPos.y)]]
            /\ interactionState' = [st EXCEPT !.startPos = e]
            /\ UNCHANGED groups
       ELSE IF st.isDraggingGroup
       THEN /\ groups' = RepositionGroup(groups, st.draggedGroupIndex,
                            PlusOffset(st.initialGroupPos, "x",
                                       Over(e.x - st.startPos.x, view.zoom)),
                            PlusOffset(st.initialGroupPos, "y",
                                       Over(e.y - st.startPos.y, view.zoom)))
            /\ UNCHANGED <<view, interactionState>>
       ELSE UNCHANGED <<groups, view, interactionState>>
    /\ mouse' = e
    /\ moves' = moves + 1
    /\ SaveEffect
    /\ UNCHANGED <<modalVars, transitVars, dndVars, now, drags, ops, wheels>>

\* handleMouseUp, at the end of a mouse gesture.
HandleMouseUp ==
    /\ drag.phase = "idle"
    /\ ~PendingRender
    /\ interactionState.isPanning \/ interactionState.isDraggingGroup
    /\ interactionState' = [interactionState EXCEPT !.isPanning = FALSE,
                                                    !.isDraggingGroup = FALSE]
    /\ UNCHANGED sessionVars
    /\ UNCHANGED <<groups, modalVars, view, transitVars, dndVars, mouse, now, counters>>

\* The wheel handler that places the pan with the zoom before clamping.
WheelViewUnclampedPan(v, e, zoomIn) ==
    LET newZoom == IF zoomIn THEN Times(v.zoom, ZoomFactor) ELSE Over(v.zoom, ZoomFactor)
        clampedZoom == ClampZoom(newZoom)
        mouseX == e.x - RectLeft
        mouseY == e.y - RectTop
        worldX == Over(mouseX - v.pan.x, v.zoom)
        worldY == Over(mouseY - v.pan.y, v.zoom)
    IN  [zoom |-> clampedZoom,
         pan |-> [x |-> mouseX - Times(worldX, newZoom),
                  y |-> mouseY - Times(worldY, newZoom)]]

\* handleWheel at the pointer: deltaY < 0 zooms in.
WheelView(v, e, zoomIn) ==
    LET newZoom == IF zoomIn THEN Times(v.zoom, ZoomFactor) ELSE Over(v.zoom, ZoomFactor)
        clampedZoom == ClampZoom(newZoom)
        mouseX == e.x - RectLeft
        mouseY == e.y - RectTop
        worldX == Over(mouseX - v.pan.x, v.zoom)
        worldY == Over(mouseY - v.pan.y, v.zoom)
    IN  [zoom |-> clampedZoom,
         pan |-> [x |-> mouseX - Times(worldX, clampedZoom),
                  y |-> mouseY - Times(worldY, clampedZoom)]]

HandleWheel(zoomIn) ==
    /\ drag.phase = "idle"
    /\ ~PendingRender
    /\ wheels < MaxWheels
    /\ view' = WheelView(view, mouse, zoomIn)
    /\ wheels' = wheels + 1
    /\ UNCHANGED sessionVars
    /\ UNCHANGED <<groups, modalVars, transitVars, interactionState, dndVars, mouse,
                   now, drags, ops, moves>>

-----------------------------------------------------------------------------
(* Search.  A string is a sequence of one-character strings. *)

Web == <<"w", "e", "b">>
TeamsGroup == <<"t", "e", "a", "m", "s", "G", "r", "o", "u", "p">>

\* Longest text typed into the search box.
MaxQueryLen == 2

\* What can be typed into the search box.
Keys == {"a", "B", "w", "g", " "}
Queries == UNION {[1..n -> Keys] : n \in 0..MaxQueryLen}

\* Boards to search in: one or two named groups of zero to two favorites.
SearchNames == {<<"a", "b">>, <<"W">>}
SearchData == {[type |-> Web, name |-> <<"A">>, url |-> <<"b">>],
               [type |-> TeamsGroup, name |-> <<"b", "a">>, url |-> <<"#">>]}
SearchLists(first) ==
    {<<>>} \cup {<<Fav(first, d)>> : d \in SearchData}
           \cup {<<Fav(first, d), Fav(first + 1, e)>> : d, e \in SearchData}
SearchGroups(id) ==
    {[id |-> id, name |-> n, x |-> 400 * id, y |-> 300, favorites |-> l] :
        n \in SearchNames, l \in SearchLists(2 * id - 1)}
SearchBoards ==
    {<<g>> : g \in SearchGroups(1)} \cup
    {<<g, h>> : g \in SearchGroups(1), h \in SearchGroups(2)}

\* String.prototype.toLowerCase, on the letters in use.
Lower(c) ==
    CASE c = "A" -> "a" [] c = "B" -> "b" [] c = "G" -> "g" [] c = "W" -> "w"
      [] OTHER -> c
ToLowerCase(str) == [i \in DOMAIN str |-> Lower(str[i])]

\* String.prototype.includes
Includes(str, q) ==
    \E k \in 0..(Len(str) - Len(q)) : SubSeq(str, k + 1, k + Len(q)) = q

\* String.prototype.trim
RECURSIVE TrimStart(_)
TrimStart(str) ==
    IF str # <<>> /\ Head(str) = " " THEN TrimStart(Tail(str)) ELSE str
RECURSIVE TrimEnd(_)
TrimEnd(str) ==
    IF str # <<>> /\ str[Len(str)] = " "
    THEN TrimEnd(SubSeq(str, 1, Len(str) - 1)) ELSE str
Trim(str) == TrimEnd(TrimStart(str))

\* The test of the inner loop of searchResults for favorite fav of group.
SearchHit(group, fav, lowerCaseQuery) ==
    \/ Includes(ToLowerCase(group.name), lowerCaseQuery)
    \/ Includes(ToLowerCase(fav.data.name), lowerCaseQuery)
    \/ Includes(ToLowerCase(fav.data.url), lowerCaseQuery)
    \/ Includes(ToLowerCase(fav.data.type), lowerCaseQuery)

\* The search that compares the query as typed.
SearchResultsAsTyped(query, gs) ==
    IF Trim(query) = <<>> THEN Null
    ELSE LET Hits(g) == {k \in DOMAIN g.favorites : SearchHit(g, g.favorites[k], query)}
         IN  [matchingFavIds |->
                  UNION {{gs[i].favorites[k].id : k \in Hits(gs[i])} : i \in DOMAIN gs},
              matchingGroupIds |-> {gs[i].id : i \in {j \in DOMAIN gs : Hits(gs[j]) # {}}}]

\* searchResults: null for a blank query, else the two sets the loops fill.
SearchResults(query, gs) ==
    IF Trim(query) = <<>> THEN Null
    ELSE LET lowerCaseQuery == ToLowerCase(query)
             Hits(g) == {k \in DOMAIN g.favorites :
                            SearchHit(g, g.favorites[k], lowerCaseQuery)}
         IN  [matchingFavIds |->
                  UNION {{gs[i].favorites[k].id : k \in Hits(gs[i])} : i \in DOMAIN gs},
              matchingGroupIds |-> {gs[i].id : i \in {j \in DOMAIN gs : Hits(gs[j]) # {}}}]

\* The App mounted on a board to search in.
InitSearch ==
    /\ groups \in SearchBoards
    /\ InitAround

\* onChange of the search box.
HandleSearchChange(query) ==
    /\ app = "mounted"
    /\ query # searchQuery
    /\ searchQuery' = query
    /\ UNCHANGED <<groups, modalVars, view, transitVars, dndVars, pointerVars, now,
                   counters, stored, app, reading, alerted>>

-----------------------------------------------------------------------------
(* Import *)

\* Boards a backup file can hold.
BoardA ==
    << [id |-> 1, name |-> "Work Tools", x |-> 400, y |-> 300,
        favorites |-> <<Fav(2, 0), Fav(5, 0), Fav(6, 0)>>],
       [id |-> 2, name |-> "Team Contacts", x |-> 800, y |-> 500,
        favorites |-> <<Fav(3, 0), Fav(4, 0), Fav(7, 0), Fav(1, 0)>>] >>
BoardB ==
    << [id |-> 2, name |-> "Team Contacts", x |-> 800, y |-> 500,
        favorites |-> <<Fav(3, 1)>>] >>

\* A group with nothing but the three fields the import asks for, and one
\* without its favorites.
BareGroup == [id |-> 9, name |-> "Bare", favorites |-> <<>>]
NoFavorites == [id |-> 9, name |-> "Bare"]

\* Files being read at the same time.
MaxReads == 2

\* The files the user can pick.
ImportTexts ==
    { Garbage,
      TextOf(JNumber),
      TextOf(JObject(BareGroup)),
      TextOf(JArray(<<>>)),
      TextOf(JArray(<<JNull>>)),
      TextOf(JArray(<<JObject(BareGroup), JNumber>>)),
      TextOf(JArray(<<JObject(NoFavorites), JNull>>)),
      TextOf(JArray(<<JObject(BoardB[1]), JObject(NoFavorites)>>)),
      TextOf(JArray(<<JArray(<<>>)>>)),
      TextOf(JArray(<<JObject(BareGroup)>>)),
      Stringify(BoardA),
      Stringify(BoardB) }

\* 'id' in g && 'name' in g && 'favorites' in g: the operator in throws a
\* TypeError when g is null or a primitive.
HasGroupFields(g) ==
    IF g.t \in {"null", "number"} THEN "throws"
    ELSE IF g.t = "object" /\ {"id", "name", "favorites"} \subseteq DOMAIN g.o
    THEN "yes" ELSE "no"

\* importedGroups.every(...) from element i on: it stops at the first
\* element that fails or throws.
RECURSIVE Every(_, _)
Every(items, i) ==
    IF i > Len(items) THEN "yes"
    ELSE LET h == HasGroupFields(items[i])
         IN  IF h = "yes" THEN Every(items, i + 1) ELSE h

\* The import that does not wait for the confirmation.
ImportOutcomeUnconfirmed(text, confirmed) ==
    LET parsed == JsonParse(text)
    IN  IF parsed.throws THEN "error"
        ELSE IF parsed.value.t # "array" THEN "invalid"
        ELSE LET e == Every(parsed.value.items, 1)
             IN  IF e = "throws" THEN "error"
                 ELSE IF e = "no" THEN "invalid"
                 ELSE "replace"

\* What reader.onload does with the text read: it replaces the board, is
\* declined, alerts "Invalid file format." or, in the catch, alerts an error.
ImportOutcome(text, confirmed) ==
    LET parsed == JsonParse(text)
    IN  IF parsed.throws THEN "error"
        ELSE IF parsed.value.t # "array" THEN "invalid"
        ELSE LET e == Every(parsed.value.items, 1)
             IN  IF e = "throws" THEN "error"
                 ELSE IF e = "no" THEN "invalid"
                 ELSE IF confirmed THEN "replace" ELSE "declined"

\* handleImport: a file is picked and a FileReader starts reading it.
HandleImport(text) ==
    /\ app = "mounted"
    /\ ~isModalOpen
    /\ drag.phase = "idle"
    /\ text \notin reading
    /\ Cardinality(reading) < MaxReads
    /\ reading' = reading \cup {text}
    /\ UNCHANGED <<groups, modalVars, view, transitVars, dndVars, pointerVars, now,
                   counters, searchQuery, stored, app, alerted>>

\* reader.onload: the text is read; window.confirm answers confirmed.
ReaderOnLoad(text, confirmed) ==
    /\ app = "mounted"
    /\ text \in reading
    /\ reading' = reading \ {text}
    /\ LET outcome == ImportOutcome(text, confirmed)
       IN  /\ groups' = IF outcome = "replace" THEN AsGroups(JsonParse(text).value)
                        ELSE groups
           /\ alerted' = CASE outcome = "invalid" -> "Invalid file format."
                           [] outcome = "error" -> "Error reading or parsing the file."
                           [] OTHER -> alerted
    /\ stored' = Stringify(groups')
    /\ UNCHANGED <<modalVars, view, transitVars, dndVars, pointerVars, now, counters,
                   searchQuery, app>>

-----------------------------------------------------------------------------
(* Startup *)

\* What localStorage can hold under 'visualFavorites' when the page is
\* opened: nothing, an empty string, text that is no JSON, JSON that is no
\* board, or a board saved earlier.
StoredAtStart ==
    {Null, EmptyText, Garbage, TextOf(JNumber),
     Stringify(DefaultBoard), Stringify(BoardA), Stringify(BoardB)}

\* getInitialData: the parsed blob when there is one, the default board
\* when there is none; JSON.parse is not guarded.
GetInitialData(savedData) ==
    IF savedData = Null \/ savedData = EmptyText
    THEN [throws |-> FALSE, value |-> Stringify(DefaultBoard).json]
    ELSE JsonParse(savedData)

\* The page is closed or reloaded: the component state and the drag session
\* are gone, pending file reads are dropped, localStorage stays.
Close ==
    /\ app # "closed"
    /\ app' = "closed"
    /\ reading' = {}
    /\ UNCHANGED <<groups, modalVars, view, transitVars, dndVars, pointerVars, now,
                   counters, searchQuery, stored, alerted>>

\* The page is opened: root.render(<App />) runs the state initialisers.  When
\* getInitialData throws, or returns a value the first render cannot walk
\* (groups.forEach), React removes the whole tree: nothing is shown and the
\* save effect never runs.  Otherwise the App mounts and the save effect
\* stores the board it loaded.
Open ==
    /\ app = "closed"
    /\ LET initial == GetInitialData(stored)
           mounts == ~initial.throws /\ IsBoard(initial.value)
       IN  /\ app' = IF mounts THEN "mounted" ELSE "failed"
           /\ groups' = IF mounts THEN AsGroups(initial.value) ELSE <<>>
           /\ stored' = IF mounts THEN Stringify(groups') ELSE stored
    /\ isModalOpen' = FALSE
    /\ activeGroupId' = NoGroup
    /\ editingFavorite' = Null
    /\ view' = [zoom |-> 1000, pan |-> [x |-> 0, y |-> 0]]
    /\ travelingItem' = Null
    /\ interactionState' = [isPanning |-> FALSE, isDraggingGroup |-> FALSE,
                            draggedGroupIndex |-> -1,
                            startPos |-> [x |-> 0, y |-> 0],
                            initialGroupPos |-> [x |-> 0, y |-> 0]]
    /\ dragItem' = Null
    /\ dragOverGroup' = NoGroup
    /\ tf' = Unmounted
    /\ drag' = [phase |-> "idle", src |-> Foreign, srcGroup |-> NoGroup, over |-> NoGroup]
    /\ searchQuery' = <<>>
    /\ alerted' = ""
    /\ commits' = 0
    /\ UNCHANGED <<mouse, now, counters, reading>>

\* The page not yet opened, over what localStorage can hold.
InitLoad ==
    /\ groups = <<>>
    /\ InitState
    /\ stored \in StoredAtStart
    /\ app = "closed"

-----------------------------------------------------------------------------
(* Specifications *)

DragNext ==
    \/ \E gi \in DOMAIN groups : \E fi \in DOMAIN groups[gi].favorites :
          HandleDragStart(gi, fi)
    \/ ForeignDragStart
    \/ \E gi \in DOMAIN groups : HandleDragEnterGroup(groups[gi].id)
    \/ HandleDragLeaveGroup
    \/ HandleDrop
    \/ HandleDragEnd
    \/ TimerFire
    \/ \E p \in Props : TransitionEnd(p)
    \/ Render

BoardNext ==
    \/ \E newGroupName \in {"New", ""} : HandleAddGroup(newGroupName)
    \/ \E gi \in DOMAIN groups : OpenAddModal(groups[gi].id)
    \/ \E gi \in DOMAIN groups : \E fi \in DOMAIN groups[gi].favorites :
          OpenEditModal(groups[gi].favorites[fi])
    \/ \E c \in Contents : HandleSaveFavorite(c)
    \/ HandleCloseModal
    \/ \E gi \in DOMAIN groups : moves < MaxMoves /\ HandleGroupMouseDown(gi - 1)
    \/ \E e \in Points : interactionState.isDraggingGroup /\ HandleMouseMove(e)
    \/ HandleMouseUp

ViewNext ==
    \/ \E zoomIn \in BOOLEAN : HandleWheel(zoomIn)
    \/ HandleMouseDown
    \/ \E e \in Points : HandleMouseMove(e)
    \/ HandleMouseUp

\* The mouse: buttons pressed on the canvas and on group handles, moves,
\* releases and the wheel.
PointerNext ==
    \/ HandleMouseDown
    \/ \E gi \in DOMAIN groups : HandleGroupMouseDown(gi - 1)
    \/ \E e \in Points : HandleMouseMove(e)
    \/ HandleMouseUp
    \/ \E zoomIn \in BOOLEAN : wheels < MaxZooms /\ HandleWheel(zoomIn)

\* The board: favorites dragged between groups while groups and favorites
\* are added, edited and repositioned.
Next == DragNext \/ BoardNext
Spec == Init /\ [][Next]_vars

\* The drag protocol and the transit alone.
SpecDrag == Init /\ [][DragNext]_vars

\* The view: wheel zoom, pan and group drag.
SpecView == Init /\ [][ViewNext]_vars

\* The search box over the boards to search in.
SearchNext == \E query \in Queries : HandleSearchChange(query)
SpecSearch == InitSearch /\ [][SearchNext]_vars

\* Import of backup files.
ImportNext ==
    \/ \E text \in ImportTexts : HandleImport(text)
    \/ \E text \in ImportTexts : \E confirmed \in BOOLEAN : ReaderOnLoad(text, confirmed)
SpecImport == Init /\ [][ImportNext]_vars

\* Startup over what localStorage can hold, with imports in between.
LoadNext ==
    \/ Open
    \/ Close
    \/ ImportNext
SpecLoad == InitLoad /\ [][LoadNext]_vars

\* The board and its stored copy: edits, group drags, imports and reloads.
PersistNext ==
    \/ Close
    \/ Open
    \/ app = "mounted" /\ BoardNext
    \/ app = "mounted" /\ \E gi \in DOMAIN groups : HandleGroupMouseDown(gi - 1)
    \/ app = "mounted" /\ \E e \in Points : HandleMouseMove(e)
    \/ app = "mounted" /\ HandleMouseUp
    \/ reading = {} /\ \E text \in ImportTexts : HandleImport(text)
    \/ \E text \in ImportTexts : \E confirmed \in BOOLEAN : ReaderOnLoad(text, confirmed)
SpecPersist == Init /\ [][PersistNext]_vars

\* Drag and drop over a board that gets one new, empty group before the
\* first drag.
OrbitNext ==
    \/ DragNext
    \/ groups = DefaultBoard /\ drags = 0 /\ \E newGroupName \in {"New", ""} : HandleAddGroup(newGroupName)
SpecOrbit == Init /\ [][OrbitNext]_vars

\* The default board after the first group was dragged 220 px to the right:
\* the first favorite of that group is at x = 800, where the next slot of the
\* second group is.
AlignedBoard == [DefaultBoard EXCEPT ![1].x = 620]

\* Start and end positions of transits: over the default anchors and over
\* anchors that put a start and an end at the same x.
InitTransit ==
    /\ groups \in {DefaultBoard, AlignedBoard}
    /\ InitAround

\* The drag protocol with a transit that runs: the timer of the component
\* fires, the transitions it started end and their events are delivered,
\* and React renders.
SpecTransit ==
    /\ InitTransit
    /\ [][DragNext]_vars
    /\ WF_vars(TimerFire)
    /\ \A p \in Props : WF_vars(TransitionEnd(p))
    /\ WF_vars(Render)

\* The board edited, with no favorite dragged.
SpecBoard == Init /\ [][BoardNext]_vars

\* The mouse gestures: pan and group drag under a changing zoom.
SpecPointer == Init /\ [][PointerNext]_vars

-----------------------------------------------------------------------------
(* Claims *)

\* C1 (as claimed): exclusive ownership.  Every favorite of the default board
\* and every favorite on the board occurs in exactly one group's list and
\* exactly once in it: never duplicated, never absent from all groups.
ExclusiveOwnership ==
    \A id \in BoardIds(DefaultBoard) \cup BoardIds(groups) :
        CountOnBoard(groups, id) = 1

\* Steps, told from the variables they change.  A commit is a run of the
\* updater of handleTravelEnd; a drop is a run of handleDrop.
CommitStep == commits' = commits + 1
DropStep == drag.phase = "dragging" /\ drag'.phase = "dropped"
TransitStarts == travelingItem' # Null /\ travelingItem' # travelingItem

\* The favorites list of the first group with id gid.
ListOf(gs, gid) == FindGroup(gs, gid).favorites

\* C2 (as claimed): move postcondition.  When the transit of f from A to B
\* completes, A's list is its previous list without f in the same order, B's
\* list is its previous list with f appended, every other group is as it was,
\* and the board holds as many favorites as before.
MovePostcondition ==
    [][CommitStep =>
        LET t == travelingItem
            Keep(f) == f.id # t.item.id
        IN  /\ ListOf(groups', t.fromGroupId) = SelectSeq(ListOf(groups, t.fromGroupId), Keep)
            /\ ListOf(groups', t.toGroupId) = Append(ListOf(groups, t.toGroupId), t.item)
            /\ \A i \in DOMAIN groups :
                  groups[i].id \notin {t.fromGroupId, t.toGroupId} => groups'[i] = groups[i]
            /\ TotalFavorites(groups') = TotalFavorites(groups)
            /\ CountOnBoard(groups', t.item.id) = 1]_vars

\* C3 (as claimed): while a transit is in progress no favorite is grabbed.
NoGrabWhileTransiting == travelingItem # Null => dragItem = Null

MutatesOnlyAtCompletion ==
    [][/\ drag' # drag => groups' = groups
       /\ travelingItem' # Null =>
             /\ travelingItem'.item.id \in FavIds(ListOf(groups', travelingItem'.fromGroupId))
             /\ travelingItem'.item.id \notin FavIds(ListOf(groups', travelingItem'.toGroupId))
       /\ CommitStep =>
             /\ travelingItem.item.id \notin FavIds(ListOf(groups', travelingItem.fromGroupId))
             /\ travelingItem.item.id \in FavIds(ListOf(groups', travelingItem.toGroupId))]_vars

\* C6 (as claimed): exactly-once commit.  A transit that ends, by completing
\* or by giving way to another, has had its board commit applied exactly
\* once, and never more than once.
ExactlyOnceCommit ==
    [][/\ commits' <= 1
       /\ (travelingItem # Null /\ travelingItem' # travelingItem) =>
             IF travelingItem' = Null THEN commits' = 1 ELSE commits = 1]_vars

\* C7 (as claimed): the phases come in order.  A destination is recorded only
\* while a favorite is grabbed, a transit starts only from a grab with a
\* destination, and a favorite is grabbed only while nothing travels.
PhasesInOrder ==
    [][/\ dragOverGroup' # NoGroup => dragItem' # Null
       /\ TransitStarts => dragItem # Null /\ dragOverGroup # NoGroup
       /\ (dragItem' # Null /\ dragItem' # dragItem) => travelingItem = Null]_vars

\* C8 (as claimed): a commit whose source group no longer holds the favorite
\* leaves the groups unchanged.
StaleCommitIsNoOp ==
    [][(/\ CommitStep
        /\ travelingItem.item.id \notin FavIds(ListOf(groups, travelingItem.fromGroupId)))
       => groups' = groups]_vars

\* C9: zoom bound.  After any sequence of wheel events, interleaved with
\* panning, view.zoom is within [MIN_ZOOM, MAX_ZOOM] and is not 0.
ZoomBound ==
    /\ view.zoom >= MIN_ZOOM
    /\ view.zoom <= MAX_ZOOM
    /\ view.zoom # 0

\* C9 witness: wheel events have driven the zoom into the upper clamp, after
\* the view was panned.
ZoomClampedAtMax ==
    /\ view.zoom = MAX_ZOOM
    /\ wheels > 0
    /\ moves > 0

\* A wheel step.
WheelStep == wheels' = wheels + 1

\* C10: zoom about the cursor.  For every wheel event at cursor point P, the
\* world point w = (P - pan) / zoom that was under P before the event is
\* under P after it: w * newZoom + newPan = P on both axes, clamped events
\* included; from zoom 1 and pan (0, 0) a zoom-in at (100, 100) gives zoom 1.1
\* and pan.x = 100 - 100 * 1.1.
ZoomAboutCursor ==
    [][WheelStep =>
        LET Px == mouse.x - RectLeft
            Py == mouse.y - RectTop
            wx == Over(Px - view.pan.x, view.zoom)
            wy == Over(Py - view.pan.y, view.zoom)
        IN  /\ Times(wx, view'.zoom) + view'.pan.x = Px
            /\ Times(wy, view'.zoom) + view'.pan.y = Py
            /\ (/\ view = [zoom |-> 1000, pan |-> [x |-> 0, y |-> 0]]
                /\ Px = 100 /\ Py = 100
                /\ view'.zoom > view.zoom)
               => view' = [zoom |-> 1100, pan |-> [x |-> -10, y |-> -10]]]_vars

\* C10 witness: a wheel event was clamped at the lower bound and moved the pan.
ZoomClampedAtMinAboutCursor ==
    /\ view.zoom = MIN_ZOOM
    /\ view.pan.x # 0
    /\ view.pan.y # 0

\* The anchors of the groups, by index.
Anchors(gs) == [i \in DOMAIN gs |-> [x |-> gs[i].x, y |-> gs[i].y]]

\* A mouse-move step.
MoveStep == moves' = moves + 1

\* C11 (as claimed): panning and group dragging are mutually exclusive.
\* isPanning and isDraggingGroup are never both true; no mouse move changes
\* both the pan and a group anchor; while a gesture begun on a group handle
\* lasts no move changes the pan, and while a gesture begun on the empty
\* canvas lasts no move changes a group anchor.
PanAndGroupDragExclusive ==
    [][/\ ~(interactionState'.isPanning /\ interactionState'.isDraggingGroup)
       /\ MoveStep =>
             /\ ~(view'.pan # view.pan /\ Anchors(groups') # Anchors(groups))
             /\ interactionState.isDraggingGroup => view'.pan = view.pan
             /\ interactionState.isPanning => Anchors(groups') = Anchors(groups)]_vars

\* C12 (as claimed): group drag.  After a mouse-down on the handle of the
\* group at index draggedGroupIndex at startPos with anchor initialGroupPos,
\* a mouse move to e sets that group's anchor to
\* initialGroupPos + (e - startPos) / zoom with the zoom of that moment and
\* leaves its favorites, and every other group, as they were; with no
\* gesture under way a move changes no anchor.
GroupDragFollowsPointer ==
    [][MoveStep =>
        LET st == interactionState
            k == st.draggedGroupIndex + 1
        IN  IF st.isDraggingGroup
            THEN /\ groups'[k].x = st.initialGroupPos.x + Over(mouse'.x - st.startPos.x, view.zoom)
                 /\ groups'[k].y = st.initialGroupPos.y + Over(mouse'.y - st.startPos.y, view.zoom)
                 /\ groups'[k].favorites = groups[k].favorites
                 /\ \A i \in DOMAIN groups : i # k => groups'[i] = groups[i]
            ELSE Anchors(groups') = Anchors(groups)]_vars

\* str contains q, letters compared without regard to case.
ContainsCI(str, q) ==
    \E k \in 0..(Len(str) - Len(q)) :
        \A j \in 1..Len(q) : Lower(str[k + j]) = Lower(q[j])

\* The favorite's own name, URL or kind tag contains q.
OwnFieldContains(fav, q) ==
    \/ ContainsCI(fav.data.name, q)
    \/ ContainsCI(fav.data.url, q)
    \/ ContainsCI(fav.data.type, q)

\* The favorites of the board, each with its group.
Placed(gs) ==
    UNION {{[group |-> gs[i], fav |-> gs[i].favorites[k]] : k \in DOMAIN gs[i].favorites} :
              i \in DOMAIN gs}

\* C13 (as claimed): for a non-blank query the matching favorite ids are
\* exactly the ids of the favorites whose own name, URL or kind tag contains
\* the query, case-insensitively.
SearchMatchesOwnFields ==
    Trim(searchQuery) # <<>> =>
        SearchResults(searchQuery, groups).matchingFavIds =
            {p.fav.id : p \in {r \in Placed(groups) : OwnFieldContains(r.fav, searchQuery)}}

\* C13 (amended): for a non-blank query the matching favorite ids are exactly
\* the ids of the favorites whose own name, URL or kind tag, or whose group's
\* name, contains the query, case-insensitively; a query contained in none of
\* these yields the empty set.
SearchMatchesOwnFieldsOrGroupName ==
    Trim(searchQuery) # <<>> =>
        SearchResults(searchQuery, groups).matchingFavIds =
            {p.fav.id : p \in {r \in Placed(groups) :
                \/ OwnFieldContains(r.fav, searchQuery)
                \/ ContainsCI(r.group.name, searchQuery)}}

\* C13 witness: a non-blank query in other letter case matches a favorite
\* only through the name of its group, and another favorite not at all.
SearchMatchedByGroupName ==
    /\ Trim(searchQuery) # <<>>
    /\ searchQuery # ToLowerCase(searchQuery)
    /\ \E p, r \in Placed(groups) :
          /\ ~OwnFieldContains(p.fav, searchQuery)
          /\ p.fav.id \in SearchResults(searchQuery, groups).matchingFavIds
          /\ r.fav.id \notin SearchResults(searchQuery, groups).matchingFavIds

\* C14 (as claimed): for a non-blank query the matching group ids are exactly
\* the ids of the groups that own a matching favorite or whose own name
\* contains the query, case-insensitively, groups without favorites included.
SearchMatchesGroups ==
    Trim(searchQuery) # <<>> =>
        SearchResults(searchQuery, groups).matchingGroupIds =
            {groups[i].id : i \in {j \in DOMAIN groups :
                \/ ContainsCI(groups[j].name, searchQuery)
                \/ \E k \in DOMAIN groups[j].favorites :
                      OwnFieldContains(groups[j].favorites[k], searchQuery)}}

\* The text is JSON for an array whose every element is an object with an
\* id, a name and a favorites field.
ValidDocument(text) ==
    /\ text.text = "json"
    /\ text.json.t = "array"
    /\ \A i \in DOMAIN text.json.items :
          /\ text.json.items[i].t = "object"
          /\ \A field \in {"id", "name", "favorites"} :
                field \in DOMAIN text.json.items[i].o

\* C15: a rejected import leaves the board unchanged.  When a file has been
\* read, groups becomes the imported array if the text is a valid document
\* and the confirmation is accepted; otherwise (no JSON, no array, an element
\* without id, name or favorites, null and primitive elements included, or
\* the confirmation declined) groups stays as it is.
RejectedImportKeepsBoard ==
    [][\A text \in ImportTexts : \A confirmed \in BOOLEAN :
          ReaderOnLoad(text, confirmed) =>
              IF ValidDocument(text) /\ confirmed
              THEN groups' = [i \in DOMAIN text.json.items |-> text.json.items[i].o]
              ELSE groups' = groups]_vars

\* C15 witness: a file with a null element has been rejected with an alert
\* after another file had replaced the default board.
ImportRejectedAfterReplace ==
    /\ alerted = "Error reading or parsing the file."
    /\ groups = BoardA
    /\ TextOf(JArray(<<JNull>>)) \notin reading
    /\ Stringify(BoardA) \notin reading

\* C16: malformed persisted data at startup is caught at the boundary.  When
\* the page is opened over a stored blob that is not parseable JSON, the
\* application mounts with a usable board and shows a message.
MalformedBlobCaughtAtStartup ==
    [][(Open /\ stored # Null /\ JsonParse(stored).throws) =>
          /\ app' = "mounted"
          /\ Len(groups') > 0
          /\ alerted' # ""]_vars

\* C17: persistence follows the board.  Whenever the App is mounted and has
\* rendered its last update, the blob stored under 'visualFavorites' reads
\* back as exactly the current groups, so that a reload yields that board;
\* while a favorite is in transit the blob still holds it in its source group.
PersistenceFollowsBoard ==
    (app = "mounted" /\ ~PendingRender) =>
        /\ ~JsonParse(stored).throws
        /\ AsGroups(JsonParse(stored).value) = groups
        /\ travelingItem # Null =>
              \E i \in DOMAIN groups :
                 /\ groups[i].id = travelingItem.fromGroupId
                 /\ travelingItem.item.id \in FavIds(AsGroups(JsonParse(stored).value)[i].favorites)

\* C18: id uniqueness.  In every state reached from the default board by
\* adding groups, adding and editing favorites, dragging groups and moving
\* favorites between groups, no two favorites on the board share an id and no
\* two groups share an id.
IdUniqueness ==
    /\ \A i, j \in DOMAIN groups :
          /\ groups[i].id = groups[j].id => i = j
          /\ \A k \in DOMAIN groups[i].favorites : \A l \in DOMAIN groups[j].favorites :
                groups[i].favorites[k].id = groups[j].favorites[l].id
                    => (i = j /\ k = l)

\* C19: no division by zero in the orbit computation.  planetPositions has an
\* entry for exactly the favorites on the board (so none for a group without
\* favorites), and every entry is a number: its count was at least 1.  The
\* endPos handleDrop computed for a transit is a number too, the destination
\* being empty or not: its hypothetical count was at least 1.
NoDivisionByZero ==
    LET positions == PlanetPositions(groups)
    IN  /\ \A gi \in DOMAIN groups : \A fi \in DOMAIN groups[gi].favorites :
              groups[gi].favorites[fi].id \in DOMAIN positions
        /\ \A id \in DOMAIN positions :
              /\ CountOnBoard(groups, id) >= 1
              /\ positions[id].x # NaN
              /\ positions[id].y # NaN
        /\ travelingItem # Null =>
              /\ travelingItem.endPos.x # NaN
              /\ travelingItem.endPos.y # NaN

\* C19 witness: a favorite travels to a group that has no favorites, next to
\* groups that have some.
TravelsToEmptyGroup ==
    /\ travelingItem # Null
    /\ \E gi \in DOMAIN groups :
          /\ groups[gi].id = travelingItem.toGroupId
          /\ Len(groups[gi].favorites) = 0
    /\ DOMAIN PlanetPositions(groups) # {}

\* C20: transit endpoints at an accepted drop.  When handleDrop starts a
\* transit, startPos is the orbit slot the favorite has in its source group,
\* endPos is slot N of N + 1 around the anchor of the destination, N being
\* the number of favorites of the destination at the drop, and groups does
\* not change.
TransitEndpoints ==
    [][(DropStep /\ TransitStarts) =>
          LET ti == travelingItem'
              from == FindGroup(groups, ti.fromGroupId)
              to == FindGroup(groups, ti.toGroupId)
              N == Len(to.favorites)
          IN  /\ \E fi \in DOMAIN from.favorites :
                    /\ from.favorites[fi].id = ti.item.id
                    /\ ti.startPos = OrbitPos(from.x, from.y, fi - 1, Len(from.favorites))
              /\ ti.endPos = OrbitPos(to.x, to.y, N, N + 1)
              /\ groups' = groups]_vars

\* C21: pan is the sum of incremental deltas.  While a pan lasts startPos is
\* the last screen point of the pointer, and a move to a point adds that point
\* minus the last one to the pan and leaves zoom and groups alone: from the
\* mouse-down at S to the pointer at C the pan has grown by C - S.  A mouse-up
\* ends the pan, and a move outside a pan leaves the pan as it is.
PanSumsDeltas ==
    [][/\ interactionState'.isPanning => interactionState'.startPos = mouse'
       /\ MoveStep =>
             IF interactionState.isPanning
             THEN /\ view'.pan = [x |-> view.pan.x + (mouse'.x - mouse.x),
                                  y |-> view.pan.y + (mouse'.y - mouse.y)]
                  /\ view'.zoom = view.zoom
                  /\ groups' = groups
             ELSE view'.pan = view.pan
       /\ HandleMouseUp => ~interactionState'.isPanning]_vars

\* C21 witness: under a changed zoom the canvas was grabbed at (140, 130) and
\* the pointer moved to (100, 100): the pan has changed by (-40, -30), whatever
\* the zoom.
PannedUnderZoom ==
    LET zoomed == WheelView([zoom |-> 1000, pan |-> [x |-> 0, y |-> 0]],
                            [x |-> 140, y |-> 130], TRUE)
    IN  /\ interactionState.isPanning
        /\ moves = 1
        /\ view.zoom = zoomed.zoom
        /\ view.zoom # 1000
        /\ mouse = [x |-> 100, y |-> 100]
        /\ view.pan = [x |-> zoomed.pan.x - 40, y |-> zoomed.pan.y - 30]

\* C22: every started transit eventually commits its own move.  Whenever
\* travelingItem is (f, A, B), eventually travelingItem is null again with f
\* in B and not in A, whatever the start and end positions and whatever is
\* dragged and dropped meanwhile.
EveryTransitCommits ==
    \A id \in BoardIds(DefaultBoard) : \A A \in {1, 2} : \A B \in {1, 2} :
        (/\ travelingItem # Null
         /\ travelingItem.item.id = id
         /\ travelingItem.fromGroupId = A
         /\ travelingItem.toGroupId = B)
        ~> (/\ travelingItem = Null
            /\ id \in FavIds(ListOf(groups, B))
            /\ id \notin FavIds(ListOf(groups, A)))

\* C23: the transit lands where the favorite ends up.  When a transit
\* commits, the favorite is the last of the destination's list and the endPos
\* the component was given at the drop is the orbit position of that place:
\* the destination's anchor, index and count after the commit.
TransitLandsOnSlot ==
    [][CommitStep =>
          LET to == FindGroup(groups', tf.props.toGroupId)
              count == Len(to.favorites)
          IN  /\ count >= 1
              /\ to.favorites[count].id = tf.props.item.id
              /\ tf.props.endPos = OrbitPos(to.x, to.y, count - 1, count)]_vars

\* C24: edit and add preserve structure.  Saving an edit of the favorite with
\* id k changes, in every group, exactly the records with id k, which keep
\* their place and their id and get the submitted content; every other
\* favorite, every group's id, name and anchor and the number of groups stay
\* (nothing changes when k is not on the board).  Saving a new favorite makes
\* it the last of the group with the active id, under an id of its own, and
\* leaves every other group alone; with no active group the board stays.
EditAndAddPreserveStructure ==
    [][\A c \in Contents : HandleSaveFavorite(c) =>
          IF editingFavorite # Null
          THEN /\ DOMAIN groups' = DOMAIN groups
               /\ Anchors(groups') = Anchors(groups)
               /\ \A gi \in DOMAIN groups :
                     /\ groups'[gi].id = groups[gi].id
                     /\ groups'[gi].name = groups[gi].name
                     /\ DOMAIN groups'[gi].favorites = DOMAIN groups[gi].favorites
                     /\ \A fi \in DOMAIN groups[gi].favorites :
                           IF groups[gi].favorites[fi].id = editingFavorite.id
                           THEN /\ groups'[gi].favorites[fi].id = editingFavorite.id
                                /\ groups'[gi].favorites[fi].data = c
                           ELSE groups'[gi].favorites[fi] = groups[gi].favorites[fi]
               /\ editingFavorite.id \notin BoardIds(groups) => groups' = groups
          ELSE IF activeGroupId = NoGroup
          THEN groups' = groups
          ELSE /\ DOMAIN groups' = DOMAIN groups
               /\ \A gi \in DOMAIN groups :
                     IF groups[gi].id = activeGroupId
                     THEN LET n == Len(groups[gi].favorites)
                          IN  /\ Len(groups'[gi].favorites) = n + 1
                              /\ SubSeq(groups'[gi].favorites, 1, n) = groups[gi].favorites
                              /\ groups'[gi].favorites[n + 1].data = c
                              /\ groups'[gi].favorites[n + 1].id \notin BoardIds(groups)
                              /\ [groups'[gi] EXCEPT !.favorites = groups[gi].favorites]
                                    = groups[gi]
                     ELSE groups'[gi] = groups[gi]]_vars

\* C24 witness: on a board whose first group was dragged, a favorite of the
\* second group was edited in place, or a new favorite is the last of the
\* second group.
EditedOrAddedInPlace ==
    /\ ~isModalOpen
    /\ ops = 1
    /\ Anchors(groups) # Anchors(DefaultBoard)
    /\ groups[1].favorites = DefaultBoard[1].favorites
    /\ \/ /\ Len(groups[2].favorites) = 3
          /\ groups[2].favorites[2] = Fav(4, 1)
          /\ groups[2].favorites[1] = Fav(3, 0)
          /\ groups[2].favorites[3] = Fav(7, 0)
       \/ /\ Len(groups[2].favorites) = 4
          /\ SubSeq(groups[2].favorites, 1, 3) = DefaultBoard[2].favorites
          /\ groups[2].favorites[4].data = 1

====
